---- MODULE Spec2Model ----
(***************************************************************************)
(* Model of the YouTube command-line scripts (scripts/yt_auth.py,          *)
(* scripts/yt_transcripts.py and the service helpers that yt_channel.py,   *)
(* yt_video.py and yt_analytics.py duplicate).                             *)
(*                                                                         *)
(* State: the token file, the transcript cache directory, the transcript   *)
(* index file, the position and locals of a running sync, and what the     *)
(* last command did (fetches, API requests, files written, exit status,    *)
(* printed search output), and the call of a helper function examined on   *)
(* its own (the enumeration loop of cmd_sync, format_duration,             *)
(* format_timestamp).                                                      *)
(*                                                                         *)
(* Strings are sequences of one-character strings, so that lower(),        *)
(* replace(), slicing, join and substring tests are computed as Python     *)
(* computes them.  None is modelled by a flag next to the value.           *)
(***************************************************************************)
EXTENDS Integers, Sequences, FiniteSets, TLC

VARIABLES
    tokenFile,     \* token.json: [exists, token, refresh_token, ...]
    expiredTokens, \* access tokens the identity provider no longer accepts
    issued,        \* number of access tokens the provider has issued so far
    files,         \* TRANSCRIPTS_DIR: video id -> transcript record (DOMAIN = files present)
    indexFile,     \* INDEX_PATH: the "videos" dict, video id -> index entry
    cacheDir,      \* TRUE when the directory TRANSCRIPTS_DIR exists
    pc,            \* "idle", or "sync" while cmd_sync is inside its for loop
    sync,          \* locals of the running cmd_sync
    run,           \* what the current / last command did
    out,           \* lines printed by the last cmd_search
    calc           \* the call of a helper function that is examined on its own

vars ==
    <<tokenFile, expiredTokens, issued, files, indexFile, cacheDir, pc, sync, run, out,
      calc>>

----------------------------------------------------------------------------
(* Bounds of the model *)

\* commands started in one behaviour
MaxOps == 2
\* access tokens the provider issues in one behaviour
MaxTokens == 2

----------------------------------------------------------------------------
(* Strings *)

RECURSIVE Join(_, _)
\* sep.join(parts)
Join(parts, sep) ==
    IF Len(parts) = 0 THEN <<>>
    ELSE IF Len(parts) = 1 THEN parts[1]
    ELSE parts[1] \o sep \o Join(Tail(parts), sep)

\* s[:n]
Take(s, n) == SubSeq(s, 1, IF n < Len(s) THEN n ELSE Len(s))

\* str.lower() on one character
LowerChar(c) ==
    CASE c = "H" -> "h"
      [] c = "E" -> "e"
      [] c = "L" -> "l"
      [] c = "O" -> "o"
      [] c = "W" -> "w"
      [] c = "R" -> "r"
      [] c = "D" -> "d"
      [] OTHER -> c

\* str.lower()
Lower(s) == [i \in 1..Len(s) |-> LowerChar(s[i])]

\* str.replace('\n', ' ')
ReplaceNewline(s) == [i \in 1..Len(s) |-> IF s[i] = "\n" THEN " " ELSE s[i]]

\* Python's `needle in hay` for strings
Contains(hay, needle) ==
    \E i \in 0..(Len(hay) - Len(needle)) :
        \A k \in 1..Len(needle) : hay[i + k] = needle[k]

\* one decimal digit as a character
Digit(d) == <<"0", "1", "2", "3", "4", "5", "6", "7", "8", "9">>[d + 1]

RECURSIVE Decimal(_)
\* f"{n}" for a natural number
Decimal(n) == IF n < 10 THEN <<Digit(n)>> ELSE Decimal(n \div 10) \o <<Digit(n % 10)>>

\* f"{n:02d}" for a natural number
Pad2(n) == IF n < 10 THEN <<"0", Digit(n)>> ELSE Decimal(n)

\* format_timestamp without the :02d of the minutes and seconds
format_timestamp_NoPad(seconds) ==
    LET h == seconds \div 3600
        remainder == seconds % 3600
        m == remainder \div 60
        s == remainder % 60
    IN  IF h # 0
        THEN Decimal(h) \o <<":">> \o Decimal(m) \o <<":">> \o Decimal(s)
        ELSE Decimal(m) \o <<":">> \o Decimal(s)

\* format_timestamp of yt_transcripts.py, on whole seconds
format_timestamp(seconds) ==
    LET h == seconds \div 3600
        remainder == seconds % 3600
        m == remainder \div 60
        s == remainder % 60
    IN  IF h # 0
        THEN Decimal(h) \o <<":">> \o Pad2(m) \o <<":">> \o Pad2(s)
        ELSE Decimal(m) \o <<":">> \o Pad2(s)

\* format_timestamp of yt_video.py, on whole seconds
yt_video_format_timestamp(seconds) ==
    LET total_seconds == seconds
        h == total_seconds \div 3600
        remainder == total_seconds % 3600
        m == remainder \div 60
        s == remainder % 60
    IN  IF h # 0
        THEN Decimal(h) \o <<":">> \o Pad2(m) \o <<":">> \o Pad2(s)
        ELSE Decimal(m) \o <<":">> \o Pad2(s)

----------------------------------------------------------------------------
(* format_duration of yt_analytics.py, on whole minutes.  The code divides and
   formats IEEE doubles; f"{x:.1f}" rounds the double x to the nearest tenth.
   For a quotient that is not half-way between two tenths the double and the
   exact quotient round alike.  For one that is half-way, n/20 with n odd, the
   double is the exact quotient when 5 divides n (the tie goes to the even
   tenth) and lies just above or below it otherwise, which decides the tenth. *)

RECURSIVE FloorLog2(_, _)
\* the exponent e with 2^e <= p/q < 2^(e+1), for p/q >= 1
FloorLog2(p, q) == IF p < 2 * q THEN 0 ELSE 1 + FloorLog2(p, 2 * q)

\* 2^k mod 5
Pow2Mod5(k) == <<1, 2, 4, 3>>[(k % 4) + 1]

\* minutes / 60 for minutes = 3n, n odd: 1 when the double is above n/20, -1
\* when it is below, 0 when it is exact.  The 53-bit significand is n * 2^(50-e)
\* / 5 rounded to the nearest integer.
HoursAbove(n) ==
    IF n % 5 = 0 THEN 0
    ELSE LET e == FloorLog2(n, 20)
             r == ((n % 5) * Pow2Mod5(50 - e)) % 5
         IN  IF r >= 3 THEN 1 ELSE -1

\* (minutes / 60) / 24 for minutes = 72n, n odd: the same, after the two
\* roundings of the two divisions
DaysAbove(n) ==
    IF n % 5 = 0 THEN 0
    ELSE LET eh == FloorLog2(6 * n, 5)
             r1 == ((n % 5) * Pow2Mod5(52 - eh)) % 5
             s1 == IF r1 <= 2 THEN r1 ELSE r1 - 5
             t == eh - FloorLog2(n, 20) - 3
             c == IF s1 \in {1, -2} THEN 1 ELSE -1
             s2 == IF t % 2 = 0 THEN c ELSE -c
             D == -4 * (2 ^ t) * s1 - 20 * s2
         IN  IF D > 0 THEN 1 ELSE -1

\* the tenths that f"{x:.1f}" prints for the double x computed for p/q; above
\* says where x lies when p/q is half-way between two tenths
Tenths(p, q, above) ==
    LET fl == (10 * p) \div q
        r == (10 * p) % q
    IN  IF 2 * r < q THEN fl
        ELSE IF 2 * r > q THEN fl + 1
        ELSE IF above = 0 THEN (IF fl % 2 = 0 THEN fl ELSE fl + 1)
        ELSE IF above > 0 THEN fl + 1
        ELSE fl

\* the digits of a number of tenths, "<T div 10>.<T mod 10>"
Fixed1(T) == Decimal(T \div 10) \o <<".">> \o <<Digit(T % 10)>>

\* format_duration cutting the quotient off after the first decimal
format_duration_Truncating(minutes) ==
    IF minutes < 60 THEN Fixed1(10 * minutes) \o <<" ", "m", "i", "n">>
    ELSE IF minutes < 1440
    THEN Fixed1((10 * minutes) \div 60) \o <<" ", "h", "r", "s">>
    ELSE Fixed1((10 * minutes) \div 1440) \o <<" ", "d", "a", "y", "s">>

\* format_duration
format_duration(minutes) ==
    IF minutes < 60
    THEN Fixed1(Tenths(minutes, 1, 0)) \o <<" ", "m", "i", "n">>
    ELSE IF minutes < 60 * 24
    THEN Fixed1(Tenths(minutes, 60, HoursAbove(minutes \div 3)))
         \o <<" ", "h", "r", "s">>
    ELSE Fixed1(Tenths(minutes, 60 * 24, DaysAbove(minutes \div 72)))
         \o <<" ", "d", "a", "y", "s">>

----------------------------------------------------------------------------
(* The environment: videos, what the remote services answer *)

\* video ids: v1 and v2 are uploads of the authenticated channel, x1 is not
VideoIds == {"v1", "v2", "x1"}

\* Python's string order on the video ids
VidRank(v) == CASE v = "v1" -> 1 [] v = "v2" -> 2 [] OTHER -> 3

\* the channel that owns a video, as the Data API reports it
ChannelIdOf(v) == IF v = "x1" THEN "UC_other" ELSE "UC_mine"

\* snippet.title / snippet.publishedAt / snippet.channelTitle of a video
TitleOf(v) == <<"T", v>>
PublishedOf(v) == CASE v = "v1" -> "2024-01" [] v = "v2" -> "2024-02" [] OTHER -> "2023-12"
ChannelTitleOf(v) == IF v = "x1" THEN "Other" ELSE "Mine"

\* title of the authenticated channel (channels().list(mine=True))
MyChannelTitle == "Mine"
MyChannelId == "UC_mine"

\* Raw transcripts the transcript library can deliver.  start is in tenths of a
\* second (the library gives floats); text may hold newlines.
RawA ==
    << [start |-> 425, text |-> <<"h","e","l","l","o","\n","w","o","r","l","d">>],
       [start |-> 36610, text |-> <<"W","o","r","l","d">>] >>
RawB == << [start |-> 50, text |-> <<"H","e","l","l","o">>] >>
RawTranscripts == {RawA, RawB, <<>>}

\* What the transcript library does for one video:
\*   "en"            find_transcript(['en', ...]) succeeds
\*   "en_generated"  it raises NoTranscriptFound, find_generated_transcript succeeds
\*   "first"         both raise NoTranscriptFound, the list's first transcript is taken
\*   "empty"         both raise NoTranscriptFound and the list is empty
\*   the others      the exception that list_transcripts / fetch raises
FoundKinds == {"en", "en_generated", "first"}
FailKinds == {"empty", "TranscriptsDisabled", "NoTranscriptFound", "VideoUnavailable", "Exception"}
\* the transcript-unavailable conditions: captions disabled, no transcript in
\* any language, video unavailable
UnavailableKinds == {"empty", "TranscriptsDisabled", "NoTranscriptFound", "VideoUnavailable"}
LibraryResponses ==
    { [kind |-> "en", raw |-> RawA], [kind |-> "en_generated", raw |-> RawB],
      [kind |-> "first", raw |-> <<>>] }
    \cup [kind : FailKinds, raw : {<<>>}]

\* What one request to the Data API / Analytics API does
ApiOutcomes == {"ok", "empty", "error"}

\* The upload playlist as the Data API pages it: page k holds items and the
\* number of the next page (0: no nextPageToken).
Playlists ==
    { << [items |-> <<>>, next |-> 0] >>,
      << [items |-> <<"v1">>, next |-> 0] >>,
      << [items |-> <<"v1", "v2">>, next |-> 0] >>,
      << [items |-> <<"v2">>, next |-> 2], [items |-> <<"v1">>, next |-> 0] >> }

----------------------------------------------------------------------------
(* Credential store: load_credentials, duplicated in every script *)

RefreshTokens == {"None", "rt_ok", "rt_revoked"}

NoTokenFile ==
    [exists |-> FALSE, token |-> 0, refresh_token |-> "None", token_uri |-> "None",
     client_id |-> "None", client_secret |-> "None", scopes |-> "None"]

\* the file setup_oauth writes: six fields, none of them an expiry time
TokenData(tok, rt) ==
    [exists |-> TRUE, token |-> tok, refresh_token |-> rt, token_uri |-> "uri",
     client_id |-> "cid", client_secret |-> "secret", scopes |-> "scopes"]

\* Credentials(token=..., refresh_token=..., token_uri=..., client_id=...,
\* client_secret=..., scopes=...): built from the stored fields alone
Credentials(token_data) ==
    [token |-> token_data.token, refresh_token |-> token_data.refresh_token]

\* creds.expired.  The credential object is given no expiry time, so the code has
\* no way to tell from the file that the provider no longer accepts the token:
\* what the library's property answers is a choice, except that a token the
\* provider still accepts is never reported expired.
ExpiredReportsAt(token_data, issuedNow) ==
    {FALSE} \cup
    (IF token_data.exists /\ token_data.token \in expiredTokens /\ issuedNow < MaxTokens
     THEN {TRUE} ELSE {})

\* creds.expired for the token file as it is when a command starts
ExpiredReports(token_data) == ExpiredReportsAt(token_data, issued)

\* creds.refresh(Request()): the provider issues the next access token for a
\* refresh token it accepts, and answers an error (RefreshError) otherwise
refresh(creds, newToken) ==
    IF creds.refresh_token = "rt_ok"
    THEN [raised |-> FALSE, creds |-> [creds EXCEPT !.token = newToken]]
    ELSE [raised |-> TRUE, creds |-> creds]

\* load_credentials saving, after a refresh, the fields of the credential object
\* in place of the token_data it read: the stored refresh token is lost
load_credentials_SavesCredential(token_data, reported, newToken) ==
    IF ~token_data.exists
    THEN [status |-> "None", creds |-> Credentials(token_data), file |-> token_data,
          refreshed |-> FALSE]
    ELSE LET creds == Credentials(token_data) IN
         IF reported /\ creds.refresh_token # "None"
         THEN LET r == refresh(creds, newToken) IN
              IF r.raised
              THEN [status |-> "raise", creds |-> creds, file |-> token_data,
                    refreshed |-> FALSE]
              ELSE [status |-> "creds", creds |-> r.creds,
                    file |-> [token_data EXCEPT !.token = r.creds.token,
                                                !.refresh_token = "None"],
                    refreshed |-> TRUE]
         ELSE [status |-> "creds", creds |-> creds, file |-> token_data,
               refreshed |-> FALSE]

\* load_credentials: status "None" (no file), "creds" (a credential is returned)
\* or "raise" (the refresh raised); file is token.json afterwards.
load_credentials(token_data, reported, newToken) ==
    IF ~token_data.exists
    THEN [status |-> "None", creds |-> Credentials(token_data), file |-> token_data,
          refreshed |-> FALSE]
    ELSE LET creds == Credentials(token_data) IN
         IF reported /\ creds.refresh_token # "None"
         THEN LET r == refresh(creds, newToken) IN
              IF r.raised
              THEN [status |-> "raise", creds |-> creds, file |-> token_data,
                    refreshed |-> FALSE]
              ELSE [status |-> "creds", creds |-> r.creds,
                    file |-> [token_data EXCEPT !.token = r.creds.token],
                    refreshed |-> TRUE]
         ELSE [status |-> "creds", creds |-> creds, file |-> token_data,
               refreshed |-> FALSE]

\* get_youtube_service without `if not creds: sys.exit(1)`
get_youtube_service_no_exit(loaded) ==
    IF loaded.status = "raise" THEN "traceback" ELSE "service"

\* get_youtube_service / get_analytics_service: "exit1" is sys.exit(1) (a
\* SystemExit, which `except Exception` does not catch), "traceback" an exception
\* out of load_credentials, "service" the built client.
get_youtube_service(loaded) ==
    CASE loaded.status = "None" -> "exit1"
      [] loaded.status = "raise" -> "traceback"
      [] OTHER -> "service"

----------------------------------------------------------------------------
(* Transcript cache: records, index, fetch *)

\* int(seg["start"]) on a start given in tenths of a second
IntOfTenths(t) == t \div 10

\* fetch_transcript without its last `except Exception` clause
fetch_transcript_NoCatchAll(resp) ==
    IF resp.kind \in FoundKinds
    THEN [isNone |-> FALSE, raised |-> FALSE,
          segs |-> [i \in 1..Len(resp.raw) |->
                     [start |-> IntOfTenths(resp.raw[i].start),
                      text |-> ReplaceNewline(resp.raw[i].text)]]]
    ELSE [isNone |-> TRUE, raised |-> resp.kind = "Exception", segs |-> <<>>]

\* fetch_transcript: the normalised segments, or None
fetch_transcript(resp) ==
    IF resp.kind \in FoundKinds
    THEN [isNone |-> FALSE, raised |-> FALSE,
          segs |-> [i \in 1..Len(resp.raw) |->
                     [start |-> IntOfTenths(resp.raw[i].start),
                      text |-> ReplaceNewline(resp.raw[i].text)]]]
    ELSE [isNone |-> TRUE, raised |-> FALSE, segs |-> <<>>]

\* Python truth value of `segments`: neither None nor the empty list
Truthy(segments) == ~segments.isNone /\ Len(segments.segs) > 0

\* the texts joined without the separator
FullText_NoSeparator(segs) == Join([i \in 1..Len(segs) |-> segs[i].text], <<>>)

\* " ".join(s["text"] for s in segments)
FullText(segs) == Join([i \in 1..Len(segs) |-> segs[i].text], <<" ">>)

\* the transcript_data dict of cmd_sync and cmd_get
TranscriptData(video_id, title, published, channel, is_own, segs) ==
    [video_id |-> video_id, title |-> title, published |-> published,
     channel |-> channel, is_own_video |-> is_own, segments |-> segs,
     full_text |-> FullText(segs)]

\* an entry of index["videos"]
IndexEntry(title, published, has_transcript, is_own) ==
    [title |-> title, published |-> published, has_transcript |-> has_transcript,
     is_own_video |-> is_own]

\* d[k] = v on a dict modelled as a function
Put(d, k, v) == [x \in DOMAIN d \cup {k} |-> IF x = k THEN v ELSE d[x]]

\* the empty dict / the empty directory
Empty == [x \in {} |-> 0]

\* load_index / save_index: the index file holds the dict as it is (JSON keeps
\* strings, booleans and the key set)
load_index(file) == file
save_index(index) == index

----------------------------------------------------------------------------
(* Book-keeping of what a command did *)

NoSegments == [isNone |-> TRUE, raised |-> FALSE, segs |-> <<>>]

NoLoad ==
    [called |-> FALSE, status |-> "-", tokenBefore |-> 0, rtBefore |-> "None",
     expiredBefore |-> FALSE, fileBefore |-> NoTokenFile,
     fileAfter |-> NoTokenFile, token |-> 0,
     retExpired |-> FALSE, refreshed |-> FALSE]

\* one call of load_credentials, as seen by its caller
LoadRecord(before, loaded) ==
    [called |-> TRUE, status |-> loaded.status,
     tokenBefore |-> before.token, rtBefore |-> before.refresh_token,
     expiredBefore |-> before.exists /\ before.token \in expiredTokens,
     fileBefore |-> before,
     fileAfter |-> loaded.file,
     token |-> loaded.creds.token,
     retExpired |-> loaded.status = "creds" /\ loaded.creds.token \in expiredTokens,
     refreshed |-> loaded.refreshed]

\* a command that starts now
NewRun(cmd) ==
    [cmd |-> cmd, exit |-> "running", ops |-> run.ops + 1, force |-> FALSE,
     video |-> "-", fetched |-> {}, refetched |-> {}, gotSegments |-> {},
     api |-> 0, written |-> {}, filesBefore |-> files,
     indexBefore |-> indexFile, load |-> NoLoad,
     metaFailed |-> FALSE, ownFailed |-> FALSE, unavailable |-> {},
     indexWrites |-> 0]

\* nothing printed by cmd_search
NoOutput == [query |-> <<>>, max |-> 0, results |-> <<>>, lines |-> <<>>]

SyncIdle ==
    [force |-> FALSE, videos |-> <<>>, i |-> 0, index |-> Empty, synced |-> 0,
     skipped |-> 0, failed |-> 0, segments |-> NoSegments]

----------------------------------------------------------------------------
(* Initial state: a fresh cache; the token file absent or as setup_oauth left it *)

\* everything but the token file
InitCache ==
    /\ issued = 1
    /\ files = Empty
    /\ indexFile = Empty
    /\ cacheDir = FALSE
    /\ pc = "idle"
    /\ sync = SyncIdle
    /\ run = [cmd |-> "none", exit |-> "-", ops |-> 0, force |-> FALSE,
              video |-> "-", fetched |-> {}, refetched |-> {}, gotSegments |-> {},
              api |-> 0, written |-> {}, filesBefore |-> Empty,
              indexBefore |-> Empty, load |-> NoLoad,
              metaFailed |-> FALSE, ownFailed |-> FALSE, unavailable |-> {},
     indexWrites |-> 0]
    /\ out = NoOutput

\* no helper function is examined
NoCalc == [fn |-> "-"]

\* Init of the cache commands: no token file, or a token the provider accepts
Init ==
    /\ tokenFile \in {NoTokenFile, TokenData(1, "rt_ok")}
    /\ expiredTokens = {}
    /\ InitCache
    /\ calc = NoCalc

\* Init of the credential commands: any token file setup_oauth can have left
InitAuth ==
    /\ tokenFile \in {NoTokenFile} \cup {TokenData(1, rt) : rt \in RefreshTokens}
    /\ expiredTokens = {}
    /\ InitCache
    /\ calc = NoCalc

CanStart == pc = "idle" /\ run.ops < MaxOps

\* the access token stored in token.json reaches its expiry time
TokenExpires ==
    /\ pc = "idle"
    /\ tokenFile.exists
    /\ tokenFile.token \notin expiredTokens
    /\ expiredTokens' = expiredTokens \cup {tokenFile.token}
    /\ UNCHANGED <<tokenFile, issued, files, indexFile, cacheDir, pc, sync, run, out, calc>>

----------------------------------------------------------------------------
(* cmd_sync *)

RECURSIVE PageItems(_, _)
\* the items of page k and of the pages its nextPageToken leads to
PageItems(playlist, k) ==
    playlist[k].items \o
    (IF playlist[k].next = 0 THEN <<>> ELSE PageItems(playlist, playlist[k].next))

RECURSIVE PageRequests(_, _)
\* the number of playlistItems().list requests that collects them
PageRequests(playlist, k) ==
    1 + (IF playlist[k].next = 0 THEN 0 ELSE PageRequests(playlist, playlist[k].next))

\* the skip test without `and not args.force`
ShouldSkip_IgnoreForce(exists, force) == exists

\* the skip test without `transcript_path.exists()`
ShouldSkip_Never(exists, force) == FALSE

\* `transcript_path.exists() and not args.force`
ShouldSkip(exists, force) == exists /\ ~force

\* the else branch writing the entry of the success branch
NoCaptionsEntry_True(title, published) == IndexEntry(title, published, TRUE, TRUE)

\* the index entry of a video without captions
NoCaptionsEntry(title, published) == IndexEntry(title, published, FALSE, TRUE)

\* maxResults of the playlistItems().list requests
PageSize == 50

\* the upload playlist of a channel with n uploads, items numbered in list order
Uploads(n) == [i \in 1..n |-> i]

\* What the Data API answers to playlistItems().list(maxResults, pageToken): the
\* next maxResults items, and a nextPageToken when items remain.  A token is the
\* number of items delivered before the page; 0 stands for None.
playlistItems_list(uploads, maxResults, pageToken) ==
    LET last == IF pageToken + maxResults < Len(uploads)
                THEN pageToken + maxResults ELSE Len(uploads)
    IN  [items |-> SubSeq(uploads, pageToken + 1, last),
         nextPageToken |-> IF last < Len(uploads) THEN last ELSE 0]

\* the loop leaving after the first page
LoopStops_Always(next_page_token) == TRUE

\* `if not next_page_token: break`
LoopStops(next_page_token) == next_page_token = 0

\* `videos = []; next_page_token = None` before the while loop, for a channel
\* with n uploads
EnumerationStart(n) ==
    [fn |-> "enumerate", uploads |-> n, videos |-> <<>>, next_page_token |-> 0,
     done |-> FALSE, asked |-> <<>>, answered |-> <<>>]

\* one iteration of `while True:` in cmd_sync: request, extend, token, break
list_page ==
    /\ calc.fn = "enumerate"
    /\ ~calc.done
    /\ LET response == playlistItems_list(Uploads(calc.uploads), PageSize,
                                          calc.next_page_token)
       IN  calc' = [calc EXCEPT
                      !.videos = @ \o response.items,
                      !.next_page_token = response.nextPageToken,
                      !.done = LoopStops(response.nextPageToken),
                      !.asked = Append(@, [maxResults |-> PageSize,
                                           pageToken |-> calc.next_page_token]),
                      !.answered = Append(@, response)]
    /\ UNCHANGED <<tokenFile, expiredTokens, issued, files, indexFile, cacheDir, pc, sync,
                   run, out>>

\* the loop body calling save_index after each video
IndexFileAfterVisit_Saved(file, index) == save_index(index)

\* the index file after one iteration of the for loop: the loop changes the
\* dict in memory and never calls save_index
IndexFileAfterVisit(file, index) == file

\* cmd_sync up to the for loop: service, index, channel, the paginated enumeration
cmd_sync_start(force, reported, channel, playlist) ==
    /\ CanStart
    /\ reported \in ExpiredReports(tokenFile)
    /\ LET loaded == load_credentials(tokenFile, reported, issued + 1)
           service == get_youtube_service(loaded)
           r0 == [NewRun("sync") EXCEPT !.force = force,
                                        !.load = LoadRecord(tokenFile, loaded)]
       IN  /\ tokenFile' = loaded.file
           /\ issued' = IF loaded.refreshed THEN issued + 1 ELSE issued
           /\ cacheDir' = (cacheDir \/ service = "service")
           /\ IF service # "service"
              THEN /\ run' = [r0 EXCEPT !.exit = service]
                   /\ pc' = "idle"
                   /\ sync' = SyncIdle
              ELSE IF channel = "error"
              THEN /\ run' = [r0 EXCEPT !.exit = "traceback", !.api = 1]
                   /\ pc' = "idle"
                   /\ sync' = SyncIdle
              ELSE IF channel = "empty"
              THEN /\ run' = [r0 EXCEPT !.exit = "ok", !.api = 1]
                   /\ pc' = "idle"
                   /\ sync' = SyncIdle
              ELSE /\ run' = [r0 EXCEPT !.api = 1 + PageRequests(playlist, 1)]
                   /\ pc' = "sync"
                   /\ sync' = [SyncIdle EXCEPT !.force = force,
                                               !.videos = PageItems(playlist, 1),
                                               !.i = 1,
                                               !.index = load_index(indexFile)]
    /\ out' = NoOutput
    /\ UNCHANGED <<expiredTokens, files, indexFile, calc>>

\* a variant of the existence test in which an index entry counts as cached
transcript_path_exists_OrIndexed(dir, index, video_id) ==
    video_id \in DOMAIN dir \/ video_id \in DOMAIN index

\* transcript_path.exists() in cmd_sync: the test looks at the transcripts
\* directory only; the index loaded at the start of the run plays no part
transcript_path_exists(dir, index, video_id) == video_id \in DOMAIN dir

\* one iteration of the for loop of cmd_sync
cmd_sync_visit(resp) ==
    /\ pc = "sync"
    /\ sync.i <= Len(sync.videos)
    /\ LET video_id == sync.videos[sync.i]
           title == TitleOf(video_id)
           published == PublishedOf(video_id)
           exists == transcript_path_exists(files, sync.index, video_id)
           segments == fetch_transcript(resp)
           fetching == [run EXCEPT !.fetched = @ \cup {video_id},
                                   !.refetched = @ \cup (IF exists THEN {video_id} ELSE {}),
                                   !.unavailable = IF resp.kind \in UnavailableKinds
                                                   THEN @ \cup {video_id}
                                                   ELSE @ \ {video_id}]
       IN  IF ShouldSkip(exists, sync.force)
           THEN /\ sync' = [sync EXCEPT !.skipped = @ + 1, !.i = @ + 1,
                                        !.segments = NoSegments]
                /\ UNCHANGED <<files, run, pc>>
           ELSE IF segments.raised
           THEN /\ run' = [fetching EXCEPT !.exit = "traceback"]
                /\ sync' = [sync EXCEPT !.segments = segments]
                /\ pc' = "idle"
                /\ UNCHANGED files
           ELSE IF Truthy(segments)
           THEN /\ files' = Put(files, video_id,
                                TranscriptData(video_id, title, published,
                                               MyChannelTitle, TRUE, segments.segs))
                /\ sync' = [sync EXCEPT
                              !.index = Put(@, video_id,
                                            IndexEntry(title, published, TRUE, TRUE)),
                              !.synced = @ + 1, !.i = @ + 1,
                              !.segments = segments]
                /\ run' = [fetching EXCEPT !.written = @ \cup {video_id},
                                           !.gotSegments = @ \cup {video_id}]
                /\ UNCHANGED pc
           ELSE /\ sync' = [sync EXCEPT
                              !.index = Put(@, video_id, NoCaptionsEntry(title, published)),
                              !.failed = @ + 1, !.i = @ + 1,
                              !.segments = segments]
                /\ run' = [fetching EXCEPT !.gotSegments = @ \ {video_id}]
                /\ UNCHANGED <<files, pc>>
    /\ indexFile' = IndexFileAfterVisit(indexFile, sync'.index)
    /\ UNCHANGED <<tokenFile, expiredTokens, issued, cacheDir, out, calc>>

\* the end of cmd_sync: save_index(index) and the summary
cmd_sync_finish ==
    /\ pc = "sync"
    /\ sync.i > Len(sync.videos)
    /\ indexFile' = save_index(sync.index)
    /\ run' = [run EXCEPT !.exit = "ok", !.indexWrites = @ + 1]
    /\ pc' = "idle"
    /\ UNCHANGED <<tokenFile, expiredTokens, issued, files, cacheDir, sync, out, calc>>

\* the process is killed inside the for loop of cmd_sync
SyncCrash ==
    /\ pc = "sync"
    /\ run' = [run EXCEPT !.exit = "killed"]
    /\ pc' = "idle"
    /\ UNCHANGED <<tokenFile, expiredTokens, issued, files, indexFile, cacheDir, sync, out, calc>>

----------------------------------------------------------------------------
(* cmd_get *)

\* cmd_get: the cached record, or fetch, metadata lookup, ownership lookup, write
cmd_get(video_id, resp, reported1, meta, reported2, channel, video) ==
    /\ CanStart
    /\ reported1 \in ExpiredReports(tokenFile)
    /\ LET r0 == [NewRun("get") EXCEPT !.video = video_id]
           segments == fetch_transcript(resp)
           r1 == [r0 EXCEPT !.fetched = {video_id},
                            !.gotSegments = IF Truthy(segments) THEN {video_id} ELSE {},
                            !.unavailable = IF resp.kind \in UnavailableKinds
                                            THEN {video_id} ELSE {}]
           \* first try block: title, published, channel from videos().list
           loaded1 == load_credentials(tokenFile, reported1, issued + 1)
           service1 == get_youtube_service(loaded1)
           issued1 == IF loaded1.refreshed THEN issued + 1 ELSE issued
           found == service1 = "service" /\ meta = "ok"
           title == IF found THEN TitleOf(video_id) ELSE <<video_id>>
           published == IF found THEN PublishedOf(video_id) ELSE ""
           channel_title == IF found THEN ChannelTitleOf(video_id) ELSE "Unknown"
           api1 == IF service1 = "service" THEN 1 ELSE 0
           \* second try block: is_own from channels().list and videos().list
           loaded2 == load_credentials(loaded1.file, reported2, issued1 + 1)
           service2 == get_youtube_service(loaded2)
           issued2 == IF loaded2.refreshed THEN issued1 + 1 ELSE issued1
           api2 == IF service2 # "service" THEN 0
                   ELSE IF channel = "ok" THEN 2 ELSE 1
           is_own == /\ service2 = "service"
                     /\ channel = "ok"
                     /\ video = "ok"
                     /\ ChannelIdOf(video_id) = MyChannelId
           \* what the two `except Exception` clauses had to deal with
           metaFailed == service1 # "service" \/ meta = "error"
           ownFailed == \/ service2 # "service"
                        \/ channel \in {"error", "empty"}
                        \/ channel = "ok" /\ video = "error"
       IN  /\ reported2 \in ExpiredReportsAt(loaded1.file, issued1)
           /\ cacheDir' = TRUE
           /\ out' = NoOutput
           /\ IF video_id \in DOMAIN files
              THEN /\ run' = [r0 EXCEPT !.exit = "ok"]
                   /\ UNCHANGED <<tokenFile, issued, files, indexFile>>
              ELSE IF segments.raised
              THEN /\ run' = [r1 EXCEPT !.exit = "traceback"]
                   /\ UNCHANGED <<tokenFile, issued, files, indexFile>>
              ELSE IF ~Truthy(segments)
              THEN /\ run' = [r1 EXCEPT !.exit = "ok"]
                   /\ UNCHANGED <<tokenFile, issued, files, indexFile>>
              ELSE IF service1 = "exit1"
              THEN /\ run' = [r1 EXCEPT !.exit = "exit1", !.metaFailed = TRUE,
                                        !.load = LoadRecord(tokenFile, loaded1)]
                   /\ tokenFile' = loaded1.file
                   /\ UNCHANGED <<issued, files, indexFile>>
              ELSE IF service2 = "exit1"
              THEN /\ run' = [r1 EXCEPT !.exit = "exit1", !.api = api1,
                                        !.metaFailed = metaFailed, !.ownFailed = TRUE,
                                        !.load = LoadRecord(loaded1.file, loaded2)]
                   /\ tokenFile' = loaded2.file
                   /\ issued' = issued1
                   /\ UNCHANGED <<files, indexFile>>
              ELSE /\ run' = [r1 EXCEPT !.exit = "ok", !.api = api1 + api2,
                                        !.written = {video_id},
                                        !.indexWrites = 1,
                                        !.metaFailed = metaFailed,
                                        !.ownFailed = ownFailed,
                                        !.load = LoadRecord(loaded1.file, loaded2)]
                   /\ tokenFile' = loaded2.file
                   /\ issued' = issued2
                   /\ files' = Put(files, video_id,
                                   TranscriptData(video_id, title, published,
                                                  channel_title, is_own, segments.segs))
                   /\ indexFile' = save_index(Put(load_index(indexFile), video_id,
                                                  IndexEntry(title, published, TRUE, is_own)))
    /\ sync' = SyncIdle
    /\ UNCHANGED <<expiredTokens, pc, calc>>

----------------------------------------------------------------------------
(* Commands of the other scripts that build an API service *)

\* get_analytics_service of yt_analytics.py
get_analytics_service(loaded) ==
    CASE loaded.status = "None" -> "exit1"
      [] loaded.status = "raise" -> "traceback"
      [] OTHER -> "service"

\* cmd_info of yt_channel.py: the service, then channels().list(mine=True)
cmd_info(reported, channel) ==
    /\ CanStart
    /\ reported \in ExpiredReports(tokenFile)
    /\ LET loaded == load_credentials(tokenFile, reported, issued + 1)
           service == get_youtube_service(loaded)
           r0 == [NewRun("info") EXCEPT !.load = LoadRecord(tokenFile, loaded)]
       IN  /\ tokenFile' = loaded.file
           /\ issued' = IF loaded.refreshed THEN issued + 1 ELSE issued
           /\ run' = IF service # "service" THEN [r0 EXCEPT !.exit = service]
                     ELSE [r0 EXCEPT !.api = 1,
                                     !.exit = IF channel = "error" THEN "traceback"
                                              ELSE "ok"]
    /\ out' = NoOutput
    /\ sync' = SyncIdle
    /\ UNCHANGED <<expiredTokens, files, indexFile, cacheDir, pc, calc>>

\* cmd_overview of yt_analytics.py: the analytics service, then get_channel_id
\* (its own get_youtube_service and channels().list), then reports().query
cmd_overview(reported, reported2, channel, report) ==
    /\ CanStart
    /\ reported \in ExpiredReports(tokenFile)
    /\ LET loaded == load_credentials(tokenFile, reported, issued + 1)
           analytics == get_analytics_service(loaded)
           issued1 == IF loaded.refreshed THEN issued + 1 ELSE issued
           loaded2 == load_credentials(loaded.file, reported2, issued1 + 1)
           youtube == get_youtube_service(loaded2)
           r0 == [NewRun("overview") EXCEPT !.load = LoadRecord(tokenFile, loaded)]
           r1 == [r0 EXCEPT !.load = LoadRecord(loaded.file, loaded2)]
       IN  /\ reported2 \in ExpiredReportsAt(loaded.file, issued1)
           /\ analytics # "service" => reported2 = FALSE
           /\ tokenFile' = IF analytics = "service" THEN loaded2.file ELSE loaded.file
           /\ issued' = IF analytics = "service" /\ loaded2.refreshed
                         THEN issued1 + 1 ELSE issued1
           /\ run' = IF analytics # "service" THEN [r0 EXCEPT !.exit = analytics]
                     ELSE IF youtube # "service" THEN [r1 EXCEPT !.exit = youtube]
                     ELSE IF channel = "error"
                          THEN [r1 EXCEPT !.api = 1, !.exit = "traceback"]
                     ELSE IF channel = "empty"
                          THEN [r1 EXCEPT !.api = 1, !.exit = "exit1"]
                     ELSE [r1 EXCEPT !.api = 2,
                                     !.exit = IF report = "error" THEN "traceback"
                                              ELSE "ok"]
    /\ out' = NoOutput
    /\ sync' = SyncIdle
    /\ UNCHANGED <<expiredTokens, files, indexFile, cacheDir, pc, calc>>

\* check_token of yt_auth.py (--check): "ok" when it reports "Token is valid."
check_token(reported) ==
    /\ CanStart
    /\ reported \in ExpiredReports(tokenFile)
    /\ LET loaded == load_credentials(tokenFile, reported, issued + 1)
           r0 == [NewRun("check") EXCEPT !.load = LoadRecord(tokenFile, loaded)]
       IN  IF ~tokenFile.exists
           THEN /\ run' = [NewRun("check") EXCEPT !.exit = "exit1"]
                /\ UNCHANGED <<tokenFile, issued>>
           ELSE /\ tokenFile' = loaded.file
                /\ issued' = IF loaded.refreshed THEN issued + 1 ELSE issued
                /\ run' = [r0 EXCEPT !.exit = IF loaded.status = "creds" THEN "ok"
                                              ELSE "exit1"]
    /\ out' = NoOutput
    /\ sync' = SyncIdle
    /\ UNCHANGED <<expiredTokens, files, indexFile, cacheDir, pc, calc>>

\* What the commentThreads().list request of cmd_comments does: a page of
\* comments, no items, or an HttpError with the reason named
CommentErrors == {"commentsDisabled", "quotaExceeded", "videoNotFound"}
CommentOutcomes == {"ok", "empty"} \cup CommentErrors

\* the except clause of cmd_comments: TRUE when the error is reported and the
\* command returns, FALSE when it is raised again
CommentErrorHandled(error) == error = "commentsDisabled"

\* cmd_comments of yt_video.py: the service, then commentThreads().list
cmd_comments(reported, comments) ==
    /\ CanStart
    /\ reported \in ExpiredReports(tokenFile)
    /\ LET loaded == load_credentials(tokenFile, reported, issued + 1)
           service == get_youtube_service(loaded)
           r0 == [NewRun("comments") EXCEPT !.load = LoadRecord(tokenFile, loaded)]
       IN  /\ tokenFile' = loaded.file
           /\ issued' = IF loaded.refreshed THEN issued + 1 ELSE issued
           /\ run' = IF service # "service" THEN [r0 EXCEPT !.exit = service]
                     ELSE [r0 EXCEPT !.api = 1,
                                     !.exit = IF comments \in CommentErrors
                                                 /\ ~CommentErrorHandled(comments)
                                              THEN "traceback" ELSE "ok"]
    /\ out' = NoOutput
    /\ sync' = SyncIdle
    /\ UNCHANGED <<expiredTokens, files, indexFile, cacheDir, pc, calc>>

\* What the POST to the provider's revoke endpoint does: the token is revoked,
\* the provider answers an error status (no exception), or the request raises
RevokeOutcomes == {"ok", "rejected", "error"}

\* the except clause of revoke_token leaving the token file in place
revoke_except_KeepsFile(file) == file

\* the except clause of revoke_token: `if TOKEN_PATH.exists(): TOKEN_PATH.unlink()`
revoke_except(file) == NoTokenFile

\* revoke_token of yt_auth.py (--revoke): "ok" when it returns True (exit status
\* 0), "exit1" when it returns False
\* how the consent flow of setup_oauth ends: the provider answers with a token,
\* or one of its steps (the local server, the user's consent, fetch_token) raises
FlowOutcomes == {"ok", "error"}

\* yt_auth.py --setup.  Without client_secret.json it prints the error and
\* returns False.  Otherwise it runs the consent flow, which nothing catches
\* when it raises, and writes the six fields of the credential the provider
\* gave: access token tok and refresh token rt (None when the provider sent
\* none), replacing whatever token file there was.
setup_oauth(client_secret, flow, tok, rt) ==
    /\ CanStart
    /\ IF ~client_secret
       THEN /\ run' = [NewRun("setup") EXCEPT !.exit = "exit1"]
            /\ UNCHANGED <<tokenFile, issued>>
       ELSE IF flow = "error"
       THEN /\ run' = [NewRun("setup") EXCEPT !.exit = "traceback"]
            /\ UNCHANGED <<tokenFile, issued>>
       ELSE /\ tokenFile' = TokenData(tok, rt)
            /\ issued' = IF tok > issued THEN tok ELSE issued
            /\ run' = [NewRun("setup") EXCEPT !.exit = "ok"]
    /\ out' = NoOutput
    /\ sync' = SyncIdle
    /\ UNCHANGED <<expiredTokens, files, indexFile, cacheDir, pc, calc>>

revoke_token(reported, revoke) ==
    /\ CanStart
    /\ reported \in ExpiredReports(tokenFile)
    /\ LET loaded == load_credentials(tokenFile, reported, issued + 1)
           r0 == NewRun("revoke")
           r1 == [r0 EXCEPT !.load = LoadRecord(tokenFile, loaded)]
           raised == loaded.status = "raise" \/ revoke = "error"
       IN  IF ~tokenFile.exists
           THEN /\ run' = [r0 EXCEPT !.exit = "ok"]
                /\ UNCHANGED <<tokenFile, issued, expiredTokens>>
           ELSE /\ issued' = IF loaded.refreshed THEN issued + 1 ELSE issued
                /\ expiredTokens' =
                       IF loaded.status = "creds" /\ revoke = "ok"
                       THEN expiredTokens \cup {loaded.creds.token}
                       ELSE expiredTokens
                /\ tokenFile' = IF raised THEN revoke_except(loaded.file)
                                ELSE NoTokenFile
                /\ run' = [r1 EXCEPT !.exit = IF raised THEN "exit1" ELSE "ok",
                                     !.api = IF loaded.status = "creds" THEN 1 ELSE 0]
    /\ out' = NoOutput
    /\ sync' = SyncIdle
    /\ UNCHANGED <<files, indexFile, cacheDir, pc, calc>>

----------------------------------------------------------------------------
(* cmd_search *)

\* default of --max
DefaultMax == 20
\* characters of a segment text / of a title that cmd_search prints
TextWidth == 80
TitleWidth == 60

\* the orders in which TRANSCRIPTS_DIR.glob("*.json") can deliver the files
GlobOrders ==
    LET ids == DOMAIN files
    IN  { o \in [1..Cardinality(ids) -> ids] : \A i, j \in DOMAIN o : i # j => o[i] # o[j] }

\* the match test without .lower() on the segment text
SegmentMatches_CaseSensitive(query, text) == Contains(text, query)

\* `query in segment["text"].lower()`, query being args.query.lower()
SegmentMatches(query, text) == Contains(Lower(text), query)

RECURSIVE SegmentResults(_, _, _)
\* the results one transcript file appends, from segment k on
SegmentResults(data, query, k) ==
    IF k > Len(data.segments) THEN <<>>
    ELSE (IF SegmentMatches(query, data.segments[k].text)
          THEN << [video_id |-> data.video_id, title |-> data.title,
                   timestamp |-> data.segments[k].start,
                   text |-> data.segments[k].text,
                   is_own |-> data.is_own_video] >>
          ELSE <<>>)
         \o SegmentResults(data, query, k + 1)

RECURSIVE ScanFiles(_, _, _)
\* the results list after the loop over the files
ScanFiles(order, query, k) ==
    IF k > Len(order) THEN <<>>
    ELSE SegmentResults(files[order[k]], query, 1) \o ScanFiles(order, query, k + 1)

\* the sort key (video_id, timestamp), compared as Python compares tuples
KeyLess(a, b) ==
    \/ VidRank(a.video_id) < VidRank(b.video_id)
    \/ a.video_id = b.video_id /\ a.timestamp < b.timestamp

RECURSIVE Insert(_, _)
\* r put into the sorted list after every element that is not greater (stable)
Insert(sorted, r) ==
    IF Len(sorted) = 0 THEN <<r>>
    ELSE IF KeyLess(r, sorted[1]) THEN <<r>> \o sorted
    ELSE <<sorted[1]>> \o Insert(Tail(sorted), r)

RECURSIVE SortFrom(_, _, _)
SortFrom(results, k, acc) ==
    IF k > Len(results) THEN acc ELSE SortFrom(results, k + 1, Insert(acc, results[k]))

\* results.sort(key=lambda r: (r["video_id"], r["timestamp"]))
SortResults(results) == SortFrom(results, 1, <<>>)

\* one printed line
Line(kind, video_id, ts, text, n) ==
    [kind |-> kind, video_id |-> video_id, ts |-> ts, text |-> text, n |-> n]

\* the truncation test with > in place of >=
ReachedMax_OffByOne(shown, max) == shown > max

\* `shown >= args.max`
ReachedMax(shown, max) == shown >= max

RECURSIVE PrintResults(_, _, _, _, _)
\* the printing loop of cmd_search from result k on
PrintResults(results, k, shown, current_video, max) ==
    IF k > Len(results) THEN <<>>
    ELSE IF ReachedMax(shown, max)
    THEN (IF Len(results) - shown > 0
          THEN << Line("trailer", "-", <<>>, <<>>, Len(results) - shown) >>
          ELSE <<>>)
    ELSE LET result == results[k] IN
         (IF result.video_id # current_video
          THEN << Line("header", result.video_id, <<>>,
                       Take(result.title, TitleWidth)
                         \o (IF result.is_own THEN <<>> ELSE <<" [external]">>), 0) >>
          ELSE <<>>)
         \o << Line("match", result.video_id, format_timestamp(result.timestamp),
                    Take(result.text, TextWidth)
                      \o (IF Len(result.text) > TextWidth THEN <<"...">> ELSE <<>>), 0),
               Line("url", result.video_id, <<>>, <<>>, result.timestamp) >>
         \o PrintResults(results, k + 1, shown + 1, result.video_id, max)

\* cmd_search: scan, sort, print
cmd_search(query, max, order) ==
    /\ CanStart
    /\ order \in GlobOrders
    /\ run' = [NewRun("search") EXCEPT !.exit = "ok"]
    /\ LET results == IF cacheDir THEN ScanFiles(order, Lower(query), 1) ELSE <<>>
           sorted == SortResults(results)
       IN  out' = [query |-> query, max |-> max,
                   results |-> IF Len(results) = 0 THEN <<>> ELSE sorted,
                   lines |->
                       IF ~cacheDir THEN << Line("nodir", "-", <<>>, <<>>, 0) >>
                       ELSE IF Len(results) = 0
                       THEN << Line("nomatch", "-", <<>>, query, 0) >>
                       ELSE << Line("found", "-", <<>>, query, Len(sorted)) >>
                            \o PrintResults(sorted, 1, 0, "None", max)]
    /\ sync' = SyncIdle
    /\ UNCHANGED <<tokenFile, expiredTokens, issued, files, indexFile, cacheDir, pc, calc>>

----------------------------------------------------------------------------
(* Inputs and the specification *)

Queries ==
    { <<"H","E","L","L","O">>, <<"w","o","r","l","d">>, <<>>, <<"z">> }

MaxChoices == {-1, 0, 1, 2, DefaultMax}

\* the videos `get` is asked for
GetTargets == {"v1", "x1"}

\* Inputs a command never reads are not enumerated: the answer of a service
\* that is not asked is fixed to its first value.
Only(x) == {x}
AnyResponse == [kind |-> "en", raw |-> RawA]

\* the commands of yt_auth.py, yt_channel.py and yt_analytics.py
AuthCommands ==
    \/ \E reported \in ExpiredReports(tokenFile), channel \in ApiOutcomes :
           cmd_info(reported, channel)
    \/ \E reported \in ExpiredReports(tokenFile), reported2 \in BOOLEAN,
          channel \in ApiOutcomes, report \in ApiOutcomes :
           cmd_overview(reported, reported2, channel, report)
    \/ \E reported \in ExpiredReports(tokenFile) : check_token(reported)

Next ==
    \/ \E force \in BOOLEAN, reported \in ExpiredReports(tokenFile) :
         LET service == get_youtube_service(
                            load_credentials(tokenFile, reported, issued + 1))
         IN  \E channel \in IF service = "service" THEN ApiOutcomes ELSE Only("ok") :
               \E playlist \in IF service = "service" /\ channel = "ok"
                               THEN Playlists ELSE Only(<< [items |-> <<>>, next |-> 0] >>) :
                   cmd_sync_start(force, reported, channel, playlist)
    \/ \E resp \in IF pc = "sync" /\ sync.i <= Len(sync.videos)
                      /\ ~ShouldSkip(transcript_path_exists(files, sync.index,
                                                             sync.videos[sync.i]),
                                      sync.force)
                   THEN LibraryResponses ELSE Only(AnyResponse) :
           cmd_sync_visit(resp)
    \/ cmd_sync_finish
    \/ SyncCrash
    \/ \E video_id \in GetTargets :
         \E resp \in IF video_id \in DOMAIN files THEN Only(AnyResponse)
                     ELSE LibraryResponses :
           LET lookup == video_id \notin DOMAIN files /\ Truthy(fetch_transcript(resp))
           IN  \E reported1 \in IF lookup THEN ExpiredReports(tokenFile) ELSE Only(FALSE),
                  meta \in IF lookup THEN ApiOutcomes ELSE Only("ok"),
                  reported2 \in Only(FALSE),
                  channel \in IF lookup THEN ApiOutcomes ELSE Only("ok") :
                 \E video \in IF lookup /\ channel = "ok" THEN ApiOutcomes ELSE Only("ok") :
                   cmd_get(video_id, resp, reported1, meta, reported2, channel, video)
    \/ \E query \in Queries, max \in MaxChoices, order \in GlobOrders :
           cmd_search(query, max, order)
    \/ AuthCommands

Spec == Init /\ [][Next]_vars

\* the credential store alone: tokens expire between the commands that load them
NextAuth ==
    \/ TokenExpires
    \/ AuthCommands
    \/ \E reported \in ExpiredReports(tokenFile), comments \in CommentOutcomes :
           cmd_comments(reported, comments)
    \/ \E reported \in ExpiredReports(tokenFile) :
         \E revoke \in IF load_credentials(tokenFile, reported, issued + 1).status = "creds"
                       THEN RevokeOutcomes ELSE Only("ok") :
           revoke_token(reported, revoke)
    \/ \E client_secret \in BOOLEAN :
         \E flow \in IF client_secret THEN FlowOutcomes ELSE Only("ok") :
           \E tok \in IF client_secret /\ flow = "ok" THEN 1..MaxTokens ELSE Only(1),
              rt \in IF client_secret /\ flow = "ok" THEN RefreshTokens ELSE Only("None") :
               setup_oauth(client_secret, flow, tok, rt)

SpecAuth == InitAuth /\ [][NextAuth]_vars

\* uploads of the channels whose enumeration is examined
MaxUploads == 120

\* the enumeration loop of cmd_sync on its own, for every size of the upload list
InitPages ==
    /\ tokenFile = TokenData(1, "rt_ok")
    /\ expiredTokens = {}
    /\ InitCache
    /\ calc \in {EnumerationStart(n) : n \in 0..MaxUploads}

NextPages == list_page

\* the loop runs on as long as it has not reached its break
SpecPages == InitPages /\ [][NextPages]_vars /\ WF_vars(NextPages)

\* minutes / seconds the formatters are called with
MaxMinutes == 3000
MaxSeconds == 4000
\* some longer times: ten hours, a day, a hundred hours
LongSeconds == {35999, 36000, 86399, 86400, 359999, 360000}

\* a call of format_duration(m) / of the two format_timestamp(t), not yet returned
DurationCall(m) ==
    [fn |-> "format_duration", arg |-> m, returned |-> FALSE, result |-> <<>>]
TimestampCall(t) ==
    [fn |-> "format_timestamp", arg |-> t, returned |-> FALSE, result |-> <<>>,
     returnedVideo |-> FALSE, resultVideo |-> <<>>]

\* the formatters on their own, for every argument up to the bounds
InitFormat ==
    /\ tokenFile = TokenData(1, "rt_ok")
    /\ expiredTokens = {}
    /\ InitCache
    /\ calc \in {DurationCall(m) : m \in 0..MaxMinutes}
                \cup {TimestampCall(t) : t \in (0..MaxSeconds) \cup LongSeconds}

\* format_duration(calc.arg) returns
call_format_duration ==
    /\ calc.fn = "format_duration"
    /\ ~calc.returned
    /\ calc' = [calc EXCEPT !.returned = TRUE, !.result = format_duration(calc.arg)]
    /\ UNCHANGED <<tokenFile, expiredTokens, issued, files, indexFile, cacheDir, pc, sync,
                   run, out>>

\* format_timestamp(calc.arg) of yt_transcripts.py returns
call_format_timestamp ==
    /\ calc.fn = "format_timestamp"
    /\ ~calc.returned
    /\ calc' = [calc EXCEPT !.returned = TRUE, !.result = format_timestamp(calc.arg)]
    /\ UNCHANGED <<tokenFile, expiredTokens, issued, files, indexFile, cacheDir, pc, sync,
                   run, out>>

\* format_timestamp(calc.arg) of yt_video.py returns
call_yt_video_format_timestamp ==
    /\ calc.fn = "format_timestamp"
    /\ ~calc.returnedVideo
    /\ calc' = [calc EXCEPT !.returnedVideo = TRUE,
                            !.resultVideo = yt_video_format_timestamp(calc.arg)]
    /\ UNCHANGED <<tokenFile, expiredTokens, issued, files, indexFile, cacheDir, pc, sync,
                   run, out>>

NextFormat ==
    \/ call_format_duration
    \/ call_format_timestamp
    \/ call_yt_video_format_timestamp

SpecFormat == InitFormat /\ [][NextFormat]_vars

----------------------------------------------------------------------------
(* yt_video.py transcript --search: the search mode of cmd_transcript *)

\* the longest transcript and the widest --context the search is run with
MaxSegments == 4
MaxContext == 2

\* texts of transcript segments, and the queries given to --search (never the
\* empty string: `if args.search:` sends that to the other modes)
SegmentTexts == { <<"h">>, <<"E">>, <<"l">>, <<"h", " ", "e">> }
SearchQueries ==
    { <<"e">>, <<"H", " ", "e">>, <<"h", " ", "e", " ", "l">>,
      <<"h", " ", "e", " ", "l", " ", "h">> }

\* every transcript of up to n segments
RECURSIVE SnippetLists(_)
SnippetLists(n) ==
    IF n = 0 THEN { <<>> }
    ELSE LET shorter == SnippetLists(n - 1)
         IN  shorter \cup { Append(l, t) : l \in {x \in shorter : Len(x) = n - 1},
                                            t \in SegmentTexts }

\* a window of one segment only
WindowEnd_Single(i, n) == IF i + 1 < n THEN i + 1 ELSE n

\* min(i + 3, len(snippet_list)): the end of the window that starts at i
WindowEnd(i, n) == IF i + 3 < n THEN i + 3 ELSE n

\* ' '.join(snippet_list[j].text.lower() for j in range(i, min(i + 3, len)));
\* i is the 0-based position of the code, snippet_list[j] is texts[j + 1]
combined(texts, i) ==
    Join([k \in 1..(WindowEnd(i, Len(texts)) - i) |-> Lower(texts[i + k])], <<" ">>)

\* a test that never finds a position in `seen`
NotSeen_Always(j, seen) == TRUE

\* `if j not in seen`
NotSeen(j, seen) == j \notin seen

\* the inner loop `for j in range(start, end)`: the positions it appends to
\* matches and adds to seen, as the pair of both after the loop
RECURSIVE AddContext(_, _, _, _)
AddContext(matches, seen, j, end) ==
    IF j >= end THEN [matches |-> matches, seen |-> seen]
    ELSE IF NotSeen(j, seen)
    THEN AddContext(Append(matches, j), seen \cup {j}, j + 1, end)
    ELSE AddContext(matches, seen, j + 1, end)

\* the search mode before its loop: matches = [], seen = set()
SearchStart(texts, search, context) ==
    [fn |-> "transcript_search", snippet_list |-> texts, search |-> search,
     context |-> context, i |-> 0, matches |-> <<>>, seen |-> {},
     printed |-> FALSE, found |-> FALSE, lines |-> <<>>]

InitSearch ==
    /\ tokenFile = TokenData(1, "rt_ok")
    /\ expiredTokens = {}
    /\ InitCache
    /\ calc \in { SearchStart(texts, search, context) :
                    texts \in SnippetLists(MaxSegments),
                    search \in SearchQueries,
                    context \in 0..MaxContext }

\* one iteration of `for i, segment in enumerate(snippet_list)`
transcript_search_visit ==
    /\ calc.fn = "transcript_search"
    /\ calc.i < Len(calc.snippet_list)
    /\ LET i == calc.i
           n == Len(calc.snippet_list)
           search_lower == Lower(calc.search)
           start == IF i - calc.context > 0 THEN i - calc.context ELSE 0
           end == IF n < i + calc.context + 1 THEN n ELSE i + calc.context + 1
           added == AddContext(calc.matches, calc.seen, start, end)
       IN  IF Contains(combined(calc.snippet_list, i), search_lower)
           THEN calc' = [calc EXCEPT !.i = i + 1, !.matches = added.matches,
                                     !.seen = added.seen]
           ELSE calc' = [calc EXCEPT !.i = i + 1]
    /\ UNCHANGED <<tokenFile, expiredTokens, issued, files, indexFile, cacheDir, pc, sync,
                   run, out>>

\* after the loop: "No matches found" or one line per element of matches, in
\* the order of matches, each with its text after replace('\n', ' ')
transcript_search_print ==
    /\ calc.fn = "transcript_search"
    /\ calc.i = Len(calc.snippet_list)
    /\ ~calc.printed
    /\ calc' = [calc EXCEPT
                  !.printed = TRUE,
                  !.found = (calc.matches # <<>>),
                  !.lines = [k \in 1..Len(calc.matches) |->
                               [position |-> calc.matches[k],
                                text |-> ReplaceNewline(
                                             calc.snippet_list[calc.matches[k] + 1])]]]
    /\ UNCHANGED <<tokenFile, expiredTokens, issued, files, indexFile, cacheDir, pc, sync,
                   run, out>>

NextSearch ==
    \/ transcript_search_visit
    \/ transcript_search_print

SpecSearch == InitSearch /\ [][NextSearch]_vars

----------------------------------------------------------------------------
(* yt_channel.py videos: cmd_videos *)

\* the values of --max and of --order the listing is run with
VideosMaxArgs == {0, 1, 10, 50, 51, 60, 120}
VideosOrders == {"date", "viewCount"}

\* the view count of upload number i
ViewsOf(i) == 1 + ((i * 7) % 13)

\* video_ids[:50], the ids the statistics request is made for
StatsIds(video_ids) == Take(video_ids, 50)

\* What the Data API answers to videos().list(id=...): one item with its
\* statistics for each id of the request; stats_map is the dict of them by id
videos_list(ids) ==
    [v \in {ids[i] : i \in DOMAIN ids} |-> [viewCount |-> ViewsOf(v)]]

\* int(stats_map.get(vid_id, {}).get("statistics", {}).get("viewCount", 0))
ViewCount(stats_map, vid_id) ==
    IF vid_id \in DOMAIN stats_map THEN stats_map[vid_id].viewCount ELSE 0

\* the videos whose view count is among keys, by descending count, videos with
\* the same count in their order in the list
RECURSIVE SortedByKeys(_, _, _)
SortedByKeys(videos, stats_map, keys) ==
    IF keys = {} THEN <<>>
    ELSE LET top == CHOOSE c \in keys : \A d \in keys : d <= c
             HasTop(v) == ViewCount(stats_map, v) = top
         IN  SelectSeq(videos, HasTop) \o SortedByKeys(videos, stats_map, keys \ {top})

\* list.sort(key=..., reverse=True): descending by view count, and stable
SortByViews(videos, stats_map) ==
    SortedByKeys(videos, stats_map,
                 {ViewCount(stats_map, videos[i]) : i \in DOMAIN videos})

\* cmd_videos before the channel request, for a channel with n uploads
VideosStart(n, max, order) ==
    [fn |-> "videos", uploads |-> n, max_results |-> max, order |-> order,
     stage |-> "channel", videos |-> <<>>, next_page_token |-> 0,
     asked |-> <<>>, answered |-> <<>>, stats_map |-> Empty, lines |-> <<>>,
     exit |-> "-"]

InitVideos ==
    /\ tokenFile = TokenData(1, "rt_ok")
    /\ expiredTokens = {}
    /\ InitCache
    /\ calc \in { VideosStart(n, max, order) :
                    n \in 0..MaxUploads, max \in VideosMaxArgs, order \in VideosOrders }

\* the stage after the while test `len(videos) < max_results`
WhileStage(videos, max_results) ==
    IF Len(videos) < max_results THEN "loop" ELSE "statistics"

\* channels().list(mine=True): "No channel found." or on to the while loop
cmd_videos_channel(channel) ==
    /\ calc.fn = "videos"
    /\ calc.stage = "channel"
    /\ calc' = IF channel = "empty"
               THEN [calc EXCEPT !.stage = "done", !.exit = "no channel"]
               ELSE [calc EXCEPT !.stage = WhileStage(calc.videos, calc.max_results)]
    /\ UNCHANGED <<tokenFile, expiredTokens, issued, files, indexFile, cacheDir, pc, sync,
                   run, out>>

\* one iteration of `while len(videos) < max_results:`
cmd_videos_page ==
    /\ calc.fn = "videos"
    /\ calc.stage = "loop"
    /\ LET request_count == IF 50 < calc.max_results - Len(calc.videos)
                            THEN 50 ELSE calc.max_results - Len(calc.videos)
           response == playlistItems_list(Uploads(calc.uploads), request_count,
                                          calc.next_page_token)
           videos == calc.videos \o response.items
       IN  calc' = [calc EXCEPT
                      !.videos = videos,
                      !.next_page_token = response.nextPageToken,
                      !.asked = Append(@, [maxResults |-> request_count,
                                           pageToken |-> calc.next_page_token,
                                           fetched |-> Len(calc.videos)]),
                      !.answered = Append(@, response),
                      !.stage = IF LoopStops(response.nextPageToken) THEN "statistics"
                                ELSE WhileStage(videos, calc.max_results)]
    /\ UNCHANGED <<tokenFile, expiredTokens, issued, files, indexFile, cacheDir, pc, sync,
                   run, out>>

\* the statistics request for video_ids[:50] and stats_map built from the
\* answer; the request for no id at all either fails (HttpError, traceback) or
\* answers no item
cmd_videos_statistics(statistics) ==
    /\ calc.fn = "videos"
    /\ calc.stage = "statistics"
    /\ LET video_ids == calc.videos
       IN  IF statistics = "error"
           THEN calc' = [calc EXCEPT !.stage = "done", !.exit = "traceback"]
           ELSE calc' = [calc EXCEPT !.stage = "print",
                                     !.stats_map = videos_list(StatsIds(video_ids))]
    /\ UNCHANGED <<tokenFile, expiredTokens, issued, files, indexFile, cacheDir, pc, sync,
                   run, out>>

\* the rest of cmd_videos: the optional sort and one line per video of
\* videos[:max_results]
cmd_videos_print ==
    /\ calc.fn = "videos"
    /\ calc.stage = "print"
    /\ \E videos \in Only(IF calc.order = "viewCount"
                            THEN SortByViews(calc.videos, calc.stats_map)
                            ELSE calc.videos) :
           calc' = [calc EXCEPT
                      !.stage = "done", !.exit = "ok",
                      !.videos = videos,
                      !.lines = [k \in 1..(IF calc.max_results < Len(videos)
                                           THEN calc.max_results ELSE Len(videos)) |->
                                   [id |-> videos[k],
                                    views |-> ViewCount(calc.stats_map, videos[k])]]]
    /\ UNCHANGED <<tokenFile, expiredTokens, issued, files, indexFile, cacheDir, pc, sync,
                   run, out>>

NextVideos ==
    \/ \E channel \in {"ok", "empty"} : cmd_videos_channel(channel)
    \/ cmd_videos_page
    \/ \E statistics \in IF calc.fn = "videos" /\ calc.videos = <<>>
                          THEN {"ok", "error"} ELSE Only("ok") :
           cmd_videos_statistics(statistics)
    \/ cmd_videos_print

SpecVideos == InitVideos /\ [][NextVideos]_vars

----------------------------------------------------------------------------
(* Properties *)

Range(seq) == {seq[i] : i \in DOMAIN seq}

Min(a, b) == IF a < b THEN a ELSE b

\* needle occurs in hay as a contiguous slice
IsSubstring(needle, hay) ==
    \E i \in 1..(Len(hay) + 1) :
        /\ i + Len(needle) - 1 <= Len(hay)
        /\ SubSeq(hay, i, i + Len(needle) - 1) = needle

DigitValue(c) == CHOOSE d \in 0..9 : Digit(d) = c

RECURSIVE NumberValue(_)
NumberValue(digits) ==
    IF Len(digits) = 0 THEN 0
    ELSE 10 * NumberValue(SubSeq(digits, 1, Len(digits) - 1)) + DigitValue(digits[Len(digits)])

\* the number of seconds that a printed "M:SS" or "H:MM:SS" reads as
SecondsShown(ts) ==
    LET colons == {i \in 1..Len(ts) : ts[i] = ":"}
        first == CHOOSE i \in colons : \A j \in colons : i <= j
        last == CHOOSE i \in colons : \A j \in colons : j <= i
    IN  IF Cardinality(colons) = 1
        THEN 60 * NumberValue(SubSeq(ts, 1, first - 1))
             + NumberValue(SubSeq(ts, first + 1, Len(ts)))
        ELSE 3600 * NumberValue(SubSeq(ts, 1, first - 1))
             + 60 * NumberValue(SubSeq(ts, first + 1, last - 1))
             + NumberValue(SubSeq(ts, last + 1, Len(ts)))

LinesOf(kind) == SelectSeq(out.lines, LAMBDA l : l.kind = kind)

\* the enumerated videos of the sync that runs or ran last
Enumerated == Range(sync.videos)

SyncCompleted == run.cmd = "sync" /\ run.exit = "ok"

\* C1: a sync without force calls fetch_transcript only for videos that have no
\* cached file when they are visited; in particular it fetches no video whose
\* file was in the cache when the run began (so none that an earlier run cached).
C1_NoForceNeverRefetches ==
    (run.cmd = "sync" /\ ~run.force) =>
        /\ run.refetched = {}
        /\ run.fetched \cap DOMAIN run.filesBefore = {}

\* a second sync without force that skipped the video an earlier sync cached
\* and fetched the one that was new
C1_Witness ==
    /\ SyncCompleted
    /\ ~run.force
    /\ "v1" \in DOMAIN run.filesBefore
    /\ run.filesBefore["v1"].is_own_video
    /\ sync.videos = <<"v1", "v2">>
    /\ sync.skipped = 1
    /\ run.fetched = {"v2"}

\* C2 as claimed: after a completed sync with force, every enumerated video that
\* had a cached file before the run has had that file rewritten by the run.
C2_ForceOverwritesEveryFile ==
    (SyncCompleted /\ run.force) =>
        \A v \in Enumerated \cap DOMAIN run.filesBefore : v \in run.written

\* C2 amended: after a completed sync with force, every enumerated video that had
\* a cached file before the run was fetched again, and its file was rewritten by
\* the run exactly when that fetch returned a non-empty transcript; otherwise the
\* old file is still in place.
C2_ForceRefetchesEveryFile ==
    (SyncCompleted /\ run.force) =>
        \A v \in Enumerated \cap DOMAIN run.filesBefore :
            /\ v \in run.fetched
            /\ v \in run.written <=> v \in run.gotSegments
            /\ v \notin run.gotSegments => files[v] = run.filesBefore[v]

\* a forced sync over two cached videos: one fetch failed, one file was rewritten
C2_Witness ==
    /\ SyncCompleted
    /\ run.force
    /\ {"v1", "v2"} \subseteq DOMAIN run.filesBefore
    /\ Enumerated = {"v1", "v2"}
    /\ run.written = {"v2"}
    /\ sync.failed = 1

\* C3: whenever cmd_sync has completed, every video whose index entry has
\* has_transcript = true has a transcript file in the cache directory.
C3_IndexConsistency ==
    SyncCompleted =>
        \A v \in DOMAIN indexFile : indexFile[v].has_transcript => v \in DOMAIN files

\* a sync completed after a get: one entry from get, one upload with captions,
\* one without
C3_Witness ==
    /\ SyncCompleted
    /\ "x1" \in DOMAIN indexFile
    /\ indexFile["x1"].has_transcript
    /\ \E v \in Enumerated : indexFile[v].has_transcript
    /\ \E v \in Enumerated : ~indexFile[v].has_transcript

\* a step of the sync loop that called fetch_transcript and got nothing usable
FetchFailedStep ==
    /\ pc = "sync"
    /\ run'.fetched # run.fetched
    /\ ~Truthy(sync'.segments)

\* C4: no failure of a transcript fetch stops the batch.  fetch_transcript
\* returns None, and raises nothing, for every failure of the library; the loop
\* step that gets no transcript marks the video has_transcript = false, counts it
\* as failed and moves on to the next video; and a completed sync has dealt with
\* every enumerated video.
C4_FailureNeverStopsBatch ==
    /\ [][ /\ \A resp \in LibraryResponses :
                resp.kind \in FailKinds =>
                    fetch_transcript(resp).isNone /\ ~fetch_transcript(resp).raised
           /\ FetchFailedStep =>
                /\ pc' = "sync"
                /\ run'.exit = "running"
                /\ sync'.i = sync.i + 1
                /\ sync'.failed = sync.failed + 1
                /\ sync'.index[sync.videos[sync.i]].has_transcript = FALSE
         ]_vars
    /\ [](SyncCompleted =>
            sync.synced + sync.skipped + sync.failed = Len(sync.videos))

\* a completed sync whose first video had no captions and whose second was saved
C4_Witness ==
    /\ SyncCompleted
    /\ sync.videos = <<"v1", "v2">>
    /\ sync.failed = 1
    /\ sync.synced = 1
    /\ ~indexFile["v1"].has_transcript
    /\ run.written = {"v2"}

\* C5 as claimed: when the token file holds an expired access token and a valid
\* refresh token, load_credentials returns a credential with another access
\* token, and the token file holds that token when it returns.
C5_TokenRefresh ==
    (run.load.called /\ run.load.expiredBefore /\ run.load.rtBefore = "rt_ok") =>
        /\ run.load.status = "creds"
        /\ run.load.token # run.load.tokenBefore
        /\ tokenFile.token = run.load.token

\* C6 as claimed: load_credentials never returns a credential whose access token
\* is expired.
C6_NeverReturnsExpired ==
    run.load.status = "creds" => ~run.load.retExpired

\* C7: with no token file, load_credentials returns None and nothing is written,
\* and a command that asks for an API service ends with exit status 1 without a
\* single request to the Data or Analytics API.
C7_NoTokenFileExits ==
    (run.load.called /\ ~run.load.fileBefore.exists) =>
        /\ run.load.status = "None"
        /\ tokenFile = NoTokenFile
        /\ files = run.filesBefore
        /\ indexFile = run.indexBefore
        /\ run.cmd \in {"sync", "get", "info", "overview"} =>
               run.exit = "exit1" /\ run.api = 0

\* get fetched a transcript, asked for the service without a token file, exit 1
C7_Witness ==
    /\ run.cmd = "get"
    /\ run.gotSegments = {"x1"}
    /\ ~run.load.fileBefore.exists
    /\ run.exit = "exit1"

\* the segments of the cached transcripts, as (video id, position)
CachedSegments ==
    UNION { {<<v, k>> : k \in 1..Len(files[v].segments)} : v \in DOMAIN files }

SegmentHit(v, k) ==
    IsSubstring(Lower(out.query), Lower(files[v].segments[k].text))

SegmentReported(v, k) ==
    \E i \in 1..Len(out.results) :
        /\ out.results[i].video_id = v
        /\ out.results[i].timestamp = files[v].segments[k].start
        /\ out.results[i].text = files[v].segments[k].text

\* C8: cmd_search reports a segment of a cached transcript if and only if the
\* lower-cased query is a substring of the lower-cased segment text, once each,
\* with the segment's start offset as timestamp; the printed time reads as that
\* offset.
C8_SearchMatches ==
    run.cmd = "search" =>
        /\ \A p \in CachedSegments : SegmentReported(p[1], p[2]) <=> SegmentHit(p[1], p[2])
        /\ Len(out.results) =
               Cardinality({p \in CachedSegments : SegmentHit(p[1], p[2])})
        /\ \A i \in 1..Len(LinesOf("match")) :
               SecondsShown(LinesOf("match")[i].ts) = out.results[i].timestamp

\* "HELLO" found in "hello world" at offset 42, printed as 0:42
C8_Witness ==
    /\ run.cmd = "search"
    /\ out.query = <<"H", "E", "L", "L", "O">>
    /\ \E i \in 1..Len(out.results) :
           /\ out.results[i].timestamp = 42
           /\ out.results[i].text = <<"h","e","l","l","o"," ","w","o","r","l","d">>
    /\ \E i \in 1..Len(LinesOf("match")) :
           LinesOf("match")[i].ts = <<"0", ":", "4", "2">>

\* C9: results are ordered by (video_id, timestamp) and printed in that order,
\* no video's header is printed twice, and for max >= 0 exactly min(max, total)
\* matches are printed and the trailer is printed if and only if total > max,
\* with N = total - max.
C9_SearchOutput ==
    run.cmd = "search" =>
        LET total == Len(out.results)
            matches == LinesOf("match")
            headers == LinesOf("header")
            trailers == LinesOf("trailer")
        IN  /\ \A i, j \in 1..total :
                  i < j =>
                      \/ VidRank(out.results[i].video_id) < VidRank(out.results[j].video_id)
                      \/ /\ out.results[i].video_id = out.results[j].video_id
                         /\ out.results[i].timestamp <= out.results[j].timestamp
            /\ Len(matches) <= total
            /\ \A i \in 1..Len(matches) :
                  /\ matches[i].video_id = out.results[i].video_id
                  /\ matches[i].text = out.results[i].text
            /\ \A i, j \in 1..Len(headers) :
                  i # j => headers[i].video_id # headers[j].video_id
            /\ {matches[i].video_id : i \in 1..Len(matches)}
                   = {headers[i].video_id : i \in 1..Len(headers)}
            /\ out.max >= 0 =>
                  /\ Len(matches) = Min(out.max, total)
                  /\ Len(trailers) = (IF total > out.max THEN 1 ELSE 0)
                  /\ \A i \in 1..Len(trailers) : trailers[i].n = total - out.max

\* four matches in two videos, two printed, "... and 2 more matches"
C9_Witness ==
    /\ run.cmd = "search"
    /\ out.max = 2
    /\ Len(out.results) = 4
    /\ out.results[1].video_id # out.results[4].video_id
    /\ Len(LinesOf("match")) = 2
    /\ Len(LinesOf("trailer")) = 1
    /\ LinesOf("trailer")[1].n = 2

\* C10 as claimed: get on a cached video fetches nothing, asks no API and
\* changes neither cache nor index; get on an uncached video whose transcript
\* fetch succeeds writes the record and sets has_transcript = true in the index.
C10_Get ==
    (run.cmd = "get" /\ run.exit # "running") =>
        /\ run.video \in DOMAIN run.filesBefore =>
               /\ run.fetched = {}
               /\ run.api = 0
               /\ files = run.filesBefore
               /\ indexFile = run.indexBefore
        /\ (run.video \notin DOMAIN run.filesBefore /\ run.video \in run.gotSegments) =>
               /\ run.video \in run.written
               /\ run.video \in DOMAIN files
               /\ run.video \in DOMAIN indexFile
               /\ indexFile[run.video].has_transcript

\* C11 as claimed: when get has fetched the transcript of an uncached video and
\* the metadata lookup or the ownership lookup fails (API error, no channel,
\* credentials that cannot be loaded), get still finishes normally with the
\* record written and the index updated, and a failed ownership lookup leaves
\* is_own_video false in both.
C11_LookupBestEffort ==
    ( /\ run.cmd = "get"
      /\ run.exit # "running"
      /\ run.video \notin DOMAIN run.filesBefore
      /\ run.video \in run.gotSegments
      /\ run.metaFailed \/ run.ownFailed ) =>
        /\ run.exit = "ok"
        /\ run.video \in run.written
        /\ run.video \in DOMAIN files
        /\ run.video \in DOMAIN indexFile
        /\ indexFile[run.video].has_transcript
        /\ run.ownFailed =>
               /\ ~files[run.video].is_own_video
               /\ ~indexFile[run.video].is_own_video

\* C12 as claimed: whatever the commentThreads request of cmd_comments does
\* (comments disabled, quota exceeded, video not found), the command returns
\* normally; no error of the request propagates out of cmd_comments.
C12_CommentErrorsCaught ==
    (run.cmd = "comments" /\ run.api = 1) => run.exit = "ok"

\* C13 as claimed: a transcript-unavailable condition met by sync or by get is
\* never raised out of the command, and when the command has finished the video
\* has an index entry whose has_transcript is false.
C13_UnavailableRecorded ==
    (run.cmd \in {"sync", "get"} /\ run.unavailable # {}) =>
        /\ run.exit # "traceback"
        /\ run.exit = "ok" =>
               \A v \in run.unavailable :
                   v \in DOMAIN indexFile /\ ~indexFile[v].has_transcript

\* the sync that runs or ran last got as far as enumerating the upload list
SyncEnumerated == run.cmd = "sync" /\ run.api >= 2

\* C14: a sync run writes the index file once, in the step that follows the
\* last enumerated video.  No step of the loop changes the index file; while the
\* run is inside the loop, and after a crash inside it, the index file is what
\* it was before the run, and every transcript file that was there before the
\* run or was written by it is on disk.
C14_IndexSavedOnceAtEnd ==
    /\ [][ (pc = "sync" /\ (indexFile' # indexFile \/ run'.indexWrites # run.indexWrites)) =>
             /\ sync.i > Len(sync.videos)
             /\ indexFile' = sync.index
             /\ run'.indexWrites = 1
             /\ run'.exit = "ok"
             /\ pc' = "idle"
         ]_vars
    /\ []( (SyncEnumerated /\ run.exit = "ok") => run.indexWrites = 1 )
    /\ []( (SyncEnumerated /\ run.exit \in {"running", "killed"}) =>
             /\ run.indexWrites = 0
             /\ indexFile = run.indexBefore
             /\ \A v \in DOMAIN run.filesBefore \cup run.written : v \in DOMAIN files
             /\ \A v \in DOMAIN run.filesBefore \ run.written :
                    files[v] = run.filesBefore[v] )

\* a sync killed after it skipped a cached video and wrote a new file: the index
\* on disk is the old one and lacks what the run had put into its dict
C14_Witness ==
    /\ run.cmd = "sync"
    /\ run.exit = "killed"
    /\ "v1" \in DOMAIN run.filesBefore
    /\ run.written = {"v2"}
    /\ "v2" \in DOMAIN files
    /\ indexFile = run.indexBefore
    /\ "v2" \in DOMAIN sync.index
    /\ "v2" \notin DOMAIN indexFile

\* C15: a transcript record, once written, is never removed, and its content is
\* changed by one kind of step only: the loop step of a sync with force that
\* visits the video and whose fetch returned a transcript.  So no get and no
\* sync without force leaves a record that was there before it changed.
C15_RecordImmutable ==
    /\ [][ \A v \in DOMAIN files :
               /\ v \in DOMAIN files'
               /\ files'[v] # files[v] =>
                      /\ pc = "sync"
                      /\ sync.force
                      /\ sync.videos[sync.i] = v
                      /\ Truthy(sync'.segments)
                      /\ files'[v].segments = sync'.segments.segs
         ]_vars
    /\ []( (run.cmd = "get" \/ (run.cmd = "sync" /\ ~run.force)) =>
               \A v \in DOMAIN run.filesBefore :
                   v \in DOMAIN files /\ files[v] = run.filesBefore[v] )

\* a forced sync replaced the record that an earlier command had written with a
\* different one, and left alone the record whose re-fetch failed
C15_Witness ==
    /\ SyncCompleted
    /\ run.force
    /\ \E v \in run.written \cap DOMAIN run.filesBefore : files[v] # run.filesBefore[v]
    /\ \E v \in (run.fetched \cap DOMAIN run.filesBefore) \ run.written :
           files[v] = run.filesBefore[v]

\* the items of all the pages the loop was answered with, in page order
RECURSIVE ItemsOfPages(_)
ItemsOfPages(pages) ==
    IF Len(pages) = 0 THEN <<>> ELSE pages[1].items \o ItemsOfPages(Tail(pages))

\* C16: the enumeration asks for pages of 50 items, the first without a page
\* token and each later one with the nextPageToken of the response before it;
\* it asks again after every response that has a nextPageToken and stops at the
\* first that has none; it terminates, and then it has collected every item of
\* every page once, in page order, which is the whole upload list.
C16_EnumeratesWholeList ==
    /\ [](calc.fn = "enumerate" =>
            /\ Len(calc.asked) = Len(calc.answered)
            /\ \A k \in 1..Len(calc.asked) :
                   /\ calc.asked[k].maxResults = 50
                   /\ calc.asked[k].pageToken =
                          (IF k = 1 THEN 0 ELSE calc.answered[k - 1].nextPageToken)
                   /\ k < Len(calc.asked) => calc.answered[k].nextPageToken # 0
            /\ calc.done <=>
                   (Len(calc.answered) > 0
                    /\ calc.answered[Len(calc.answered)].nextPageToken = 0)
            /\ calc.videos = ItemsOfPages(calc.answered)
            /\ calc.done =>
                   /\ calc.videos = Uploads(calc.uploads)
                   /\ \A i \in 1..calc.uploads :
                          Cardinality({j \in 1..Len(calc.videos) : calc.videos[j] = i}) = 1)
    /\ [][calc.fn = "enumerate" /\ calc.done => calc' = calc]_vars
    /\ (calc.fn = "enumerate" => <>calc.done)

\* 101 uploads collected with three requests: two full pages and a page of one
C16_Witness ==
    /\ calc.fn = "enumerate"
    /\ calc.done
    /\ calc.uploads = 101
    /\ Len(calc.asked) = 3
    /\ Len(calc.answered[2].items) = 50
    /\ calc.answered[3].items = <<101>>
    /\ Len(calc.videos) = 101

\* C17: when a sync reports its counts, synced + skipped + failed is the number
\* of videos enumerated, synced is the number of transcript files the run wrote,
\* failed is the number of index entries the run set to has_transcript = false,
\* and skipped counts the enumerated videos the run did not fetch; the entries of
\* videos the run did not fetch are what they were before.
C17_CountsPartition ==
    (SyncEnumerated /\ run.exit = "ok") =>
        /\ sync.synced + sync.skipped + sync.failed = Len(sync.videos)
        /\ sync.synced = Cardinality(run.written)
        /\ sync.failed =
               Cardinality({v \in run.fetched :
                               v \in DOMAIN indexFile /\ ~indexFile[v].has_transcript})
        /\ sync.skipped = Cardinality(Enumerated \ run.fetched)
        /\ \A v \in DOMAIN indexFile \ run.fetched :
               v \in DOMAIN run.indexBefore /\ indexFile[v] = run.indexBefore[v]

\* a sync over two videos that skipped the cached one and found no captions for
\* the other: 0 synced, 1 skipped, 1 no captions
C17_Witness ==
    /\ SyncEnumerated
    /\ run.exit = "ok"
    /\ Len(sync.videos) = 2
    /\ sync.synced = 0
    /\ sync.skipped = 1
    /\ sync.failed = 1
    /\ \E v \in run.fetched : ~indexFile[v].has_transcript

\* the characters of s before its first c / after it
UpTo(s, c) ==
    LET at == CHOOSE i \in 1..Len(s) : s[i] = c /\ \A j \in 1..(i - 1) : s[j] # c
    IN  SubSeq(s, 1, at - 1)
After(s, c) ==
    LET at == CHOOSE i \in 1..Len(s) : s[i] = c /\ \A j \in 1..(i - 1) : s[j] # c
    IN  SubSeq(s, at + 1, Len(s))

IsDigits(s) == Len(s) > 0 /\ \A i \in 1..Len(s) : \E d \in 0..9 : s[i] = Digit(d)

\* s is a number written without needless leading zeros
IsPlainNumber(s) == IsDigits(s) /\ (Len(s) > 1 => s[1] # "0")

\* C18: for m minutes format_duration returns "<x> min" when m < 60, "<x> hrs"
\* when 60 <= m < 1440 and "<x> days" otherwise, x being m, m/60 or m/1440
\* written with one decimal, no further from the exact value than half a tenth;
\* 45 gives "45.0 min", 90 gives "1.5 hrs", 2000 gives "1.4 days".
C18_DurationFormat ==
    (calc.fn = "format_duration" /\ calc.returned) =>
        LET m == calc.arg
            r == calc.result
            number == UpTo(r, " ")
            unit == After(r, " ")
            whole == UpTo(number, ".")
            decimal == After(number, ".")
            T == 10 * NumberValue(whole) + NumberValue(decimal)
            divisor == IF m < 60 THEN 1 ELSE IF m < 1440 THEN 60 ELSE 1440
        IN  /\ " " \in Range(r)
            /\ "." \in Range(number)
            /\ IsPlainNumber(whole)
            /\ IsDigits(decimal) /\ Len(decimal) = 1
            /\ unit = (IF m < 60 THEN <<"m", "i", "n">>
                       ELSE IF m < 1440 THEN <<"h", "r", "s">>
                       ELSE <<"d", "a", "y", "s">>)
            /\ 2 * (10 * m - divisor * T) <= divisor
            /\ 2 * (divisor * T - 10 * m) <= divisor
            /\ m = 45 => r = <<"4", "5", ".", "0", " ", "m", "i", "n">>
            /\ m = 90 => r = <<"1", ".", "5", " ", "h", "r", "s">>
            /\ m = 2000 => r = <<"1", ".", "4", " ", "d", "a", "y", "s">>

\* format_duration(2000) has returned "1.4 days"
C18_Witness ==
    /\ calc.fn = "format_duration"
    /\ calc.returned
    /\ calc.arg = 2000
    /\ calc.result = <<"1", ".", "4", " ", "d", "a", "y", "s">>

RECURSIVE Split(_, _)
\* the fields of s between the occurrences of c
Split(s, c) == IF c \in Range(s) THEN <<UpTo(s, c)>> \o Split(After(s, c), c) ELSE <<s>>

\* two digits that read as a number below 60
IsSexagesimal(s) == Len(s) = 2 /\ IsDigits(s) /\ NumberValue(s) < 60

\* ts is the text "M:SS" (t < 3600) or "H:MM:SS" (otherwise) of t seconds
IsTimestampOf(ts, t) ==
    LET f == Split(ts, ":")
    IN  IF t < 3600
        THEN /\ Len(f) = 2
             /\ IsPlainNumber(f[1])
             /\ IsSexagesimal(f[2])
             /\ 60 * NumberValue(f[1]) + NumberValue(f[2]) = t
        ELSE /\ Len(f) = 3
             /\ IsPlainNumber(f[1])
             /\ NumberValue(f[1]) >= 1
             /\ IsSexagesimal(f[2])
             /\ IsSexagesimal(f[3])
             /\ 3600 * NumberValue(f[1]) + 60 * NumberValue(f[2]) + NumberValue(f[3]) = t

\* C19: for t whole seconds, format_timestamp returns "M:SS" when t < 3600 and
\* "H:MM:SS" otherwise, SS and MM being two digits below 60 and the fields
\* adding up to t; 5 gives "0:05" and 3661 gives "1:01:01"; the copy in
\* yt_video.py returns the same string as the one in yt_transcripts.py.
C19_TimestampFormat ==
    calc.fn = "format_timestamp" =>
        /\ calc.returned =>
               /\ IsTimestampOf(calc.result, calc.arg)
               /\ calc.arg = 5 => calc.result = <<"0", ":", "0", "5">>
               /\ calc.arg = 3661 => calc.result = <<"1", ":", "0", "1", ":", "0", "1">>
        /\ calc.returnedVideo => IsTimestampOf(calc.resultVideo, calc.arg)
        /\ (calc.returned /\ calc.returnedVideo) => calc.result = calc.resultVideo

\* both copies have returned "1:01:01" for 3661 seconds
C19_Witness ==
    /\ calc.fn = "format_timestamp"
    /\ calc.arg = 3661
    /\ calc.returned
    /\ calc.returnedVideo
    /\ calc.result = <<"1", ":", "0", "1", ":", "0", "1">>
    /\ calc.resultVideo = calc.result

RECURSIVE EndOfText(_, _)
\* where the i-th text ends in the texts joined by single spaces
EndOfText(texts, i) ==
    IF i = 0 THEN 0
    ELSE EndOfText(texts, i - 1) + (IF i > 1 THEN 1 ELSE 0) + Len(texts[i])

\* full is the texts, in order, with one space between neighbours
IsSpaceJoined(full, texts) ==
    /\ Len(full) = EndOfText(texts, Len(texts))
    /\ \A i \in 1..Len(texts) :
           /\ SubSeq(full, EndOfText(texts, i) - Len(texts[i]) + 1, EndOfText(texts, i))
                  = texts[i]
           /\ i > 1 => full[EndOfText(texts, i - 1) + 1] = " "

\* C20: every transcript record in the cache, written by sync or by get, has a
\* full_text that is the texts of its segments, in segment order, joined by
\* single spaces.
C20_FullTextJoined ==
    \A v \in DOMAIN files :
        IsSpaceJoined(files[v].full_text,
                      [i \in 1..Len(files[v].segments) |-> files[v].segments[i].text])

\* a record of two segments written by sync next to a record written by get
C20_Witness ==
    /\ run.cmd = "sync"
    /\ "v1" \in run.written
    /\ Len(files["v1"].segments) = 2
    /\ files["v1"].full_text =
           <<"h","e","l","l","o"," ","w","o","r","l","d"," ","W","o","r","l","d">>
    /\ "x1" \in DOMAIN files
    /\ Len(files["x1"].full_text) > 0

\* C21: load_credentials writes the token file only when it refreshed.  When
\* the call has returned or raised without a refresh, the token file is what it
\* was before the call; after a refresh the file holds the new access token,
\* the one the returned credential carries, and every other field (refresh
\* token, token URI, client id, client secret, scopes) as before.
C21_TokenFileWrittenOnRefreshOnly ==
    run.load.called =>
        /\ ~run.load.refreshed => run.load.fileAfter = run.load.fileBefore
        /\ run.load.refreshed =>
               /\ run.load.status = "creds"
               /\ run.cmd # "revoke" => tokenFile = run.load.fileAfter
               /\ run.load.fileAfter = [run.load.fileBefore EXCEPT !.token = run.load.token]
               /\ run.load.fileAfter.token # run.load.fileBefore.token
               /\ run.load.fileAfter.refresh_token = run.load.fileBefore.refresh_token
               /\ run.load.fileAfter.token_uri = run.load.fileBefore.token_uri
               /\ run.load.fileAfter.client_id = run.load.fileBefore.client_id
               /\ run.load.fileAfter.client_secret = run.load.fileBefore.client_secret
               /\ run.load.fileAfter.scopes = run.load.fileBefore.scopes

\* a check that refreshed: token 1 was stored, token 2 was issued and stored,
\* the refresh token is still in the file
C21_Witness ==
    /\ run.cmd = "check"
    /\ run.load.refreshed
    /\ run.load.fileBefore.token = 1
    /\ tokenFile.token = 2
    /\ tokenFile.refresh_token = "rt_ok"

\* C22: when revoke_token has returned, with True or with False, whatever
\* load_credentials and the revoke request did, there is no token file; and it
\* returns True when there was no token file to begin with.
C22_RevokeDeletesTokenFile ==
    run.cmd = "revoke" =>
        /\ ~tokenFile.exists
        /\ run.exit \in {"ok", "exit1"}
        /\ ~run.load.called => run.exit = "ok"

\* a revoke that found a token file, failed and returned False: the file is gone
C22_Witness ==
    /\ run.cmd = "revoke"
    /\ run.load.called
    /\ run.load.fileBefore.exists
    /\ run.exit = "exit1"
    /\ ~tokenFile.exists

\* a transcript file exists only for videos the index lists with has_transcript
FileImpliesIndexed(dir, index) ==
    \A v \in DOMAIN dir : v \in DOMAIN index /\ index[v].has_transcript

\* C23 as claimed: starting from an empty cache and an empty index, after every
\* completed sync or get a transcript file exists only for videos whose index
\* entry has has_transcript = true.  Stated as the step that carries it from the
\* empty cache through a sequence of completed operations: a sync or get that
\* starts where it holds and completes leaves it holding.
C23_FileImpliesIndexed ==
    /\ run.ops = 0 => FileImpliesIndexed(files, indexFile)
    /\ ( /\ run.cmd \in {"sync", "get"}
         /\ run.exit = "ok"
         /\ FileImpliesIndexed(run.filesBefore, run.indexBefore) ) =>
            FileImpliesIndexed(files, indexFile)

\* the videos the index recorded as having no captions and no file when the
\* current run started
RecordedNoCaptions ==
    { v \in DOMAIN run.indexBefore :
        ~run.indexBefore[v].has_transcript /\ v \notin DOMAIN run.filesBefore }

\* C24: a video whose index entry says has_transcript = false and that has no
\* transcript file is fetched again by every later sync, with or without
\* --force: every such video the loop of a sync has passed has had
\* fetch_transcript called for it in that run.
C24_NoCaptionsRetried ==
    SyncEnumerated =>
        \A j \in 1..Len(sync.videos) :
            (j < sync.i /\ sync.videos[j] \in RecordedNoCaptions) =>
                sync.videos[j] \in run.fetched

\* a completed sync without --force has fetched again a video that an earlier
\* sync recorded as having no captions
C24_Witness ==
    /\ SyncEnumerated
    /\ run.exit = "ok"
    /\ ~run.force
    /\ \E v \in RecordedNoCaptions : v \in Enumerated /\ v \in run.fetched

\* the positions the search has printed, in the order of the lines
Reported == [k \in 1..Len(calc.lines) |-> calc.lines[k].position]

\* the k texts from position i on (0-based), lower-cased and joined by single
\* spaces, contain the lower-cased query
RunContains(i, k) ==
    /\ i + k <= Len(calc.snippet_list)
    /\ Contains(Join([m \in 1..k |-> Lower(calc.snippet_list[i + m])], <<" ">>),
                Lower(calc.search))

\* position i starts a run of up to three consecutive segments that contains
\* the query
StartsMatch(i) == \E k \in 1..3 : RunContains(i, k)

\* C25: every segment whose own text contains the query case-insensitively is
\* in the output of the search, whatever the context (>= 0), and so is the
\* first segment of every run of up to three consecutive segments whose texts
\* joined by single spaces contain the query.
C25_MatchesReported ==
    (calc.fn = "transcript_search" /\ calc.printed) =>
        \A i \in 0..(Len(calc.snippet_list) - 1) :
            StartsMatch(i) => i \in Range(Reported)

\* a search has printed the first segment of a run of three segments that
\* contains the query only across both of its boundaries, and a segment whose
\* own text contains the query
C25_Witness ==
    /\ calc.fn = "transcript_search"
    /\ calc.printed
    /\ \E i \in 0..(Len(calc.snippet_list) - 1) :
          /\ RunContains(i, 3) /\ ~RunContains(i, 2) /\ ~RunContains(i, 1)
          /\ i \in Range(Reported)
    /\ \E i \in 0..(Len(calc.snippet_list) - 1) :
          RunContains(i, 1) /\ i \in Range(Reported)

\* C26: the search prints its segments in strictly ascending position, none
\* twice, and each printed segment is within `context` positions of a segment
\* that starts a matching window.
C26_ReportedAscendingNearMatch ==
    (calc.fn = "transcript_search" /\ calc.printed) =>
        /\ \A a, b \in 1..Len(Reported) : a < b => Reported[a] < Reported[b]
        /\ \A a \in 1..Len(Reported) :
              \E i \in 0..(Len(calc.snippet_list) - 1) :
                  /\ StartsMatch(i)
                  /\ Reported[a] - i <= calc.context
                  /\ i - Reported[a] <= calc.context

\* a search has printed after two matches whose context windows overlap
C26_Witness ==
    /\ calc.fn = "transcript_search"
    /\ calc.printed
    /\ calc.context >= 1
    /\ \E i1, i2 \in 0..(Len(calc.snippet_list) - 1) :
          /\ i1 < i2 /\ i2 - i1 <= 2 * calc.context
          /\ StartsMatch(i1) /\ StartsMatch(i2)
    /\ Len(Reported) >= 3

\* the listing has printed its lines
VideosPrinted == calc.fn = "videos" /\ calc.stage = "done" /\ calc.exit = "ok"

\* at most max_results lines; every request asks for min(50, N - fetched) items
\* and is made only while fewer than N videos are fetched and the response
\* before it had a nextPageToken; the loop ends only for one of these reasons
VideosPagination ==
    /\ Len(calc.lines) <= calc.max_results
    /\ \A k \in 1..Len(calc.asked) :
          /\ calc.asked[k].maxResults = Min(50, calc.max_results - calc.asked[k].fetched)
          /\ calc.asked[k].fetched < calc.max_results
          /\ k > 1 => calc.answered[k - 1].nextPageToken # 0
    /\ \/ Len(calc.videos) >= calc.max_results
       \/ /\ calc.asked # <<>>
          /\ calc.answered[Len(calc.answered)].nextPageToken = 0

\* C27 as claimed: the videos listing with --max N prints at most N videos, its
\* loop requests min(50, N - fetched) items per page and stops as soon as N
\* videos are fetched or a response has no nextPageToken, and every printed
\* video shows the view count the statistics lookup returned for that video.
C27_VideosListing ==
    VideosPrinted =>
        /\ VideosPagination
        /\ \A k \in 1..Len(calc.lines) :
              /\ calc.lines[k].id \in DOMAIN calc.stats_map
              /\ calc.lines[k].views = calc.stats_map[calc.lines[k].id].viewCount

====
